---- MODULE Spec2Model ----
(***************************************************************************)
(* Boids_automate: a flock of boids (src/boids/boid.py) hunted by one      *)
(* predaboid (src/boids/predaboid.py), stepped by Simulation.iteration     *)
(* (src/boids/simulation.py).                                              *)
(*                                                                         *)
(* Arithmetic.  The program computes in IEEE doubles; the model computes   *)
(* in fixed point and rounds every division to the nearest representable   *)
(* value, as the floating-point unit does.  Positions and velocities are   *)
(* integers counting 1/Unit, boost values are integers counting            *)
(* 1/BoostUnit.  A distance is kept as its square (the norm is monotone,   *)
(* so every comparison and the sort order are those of the norm).          *)
(***************************************************************************)
EXTENDS Integers, Sequences, FiniteSets

VARIABLES
  rng,       \* state of the process-wide generator np.random
  pc,        \* "new" | "idle" | "prey" | "pred": position in Simulation
  args,      \* the (n, seed) the Simulation was constructed with
  boids,     \* Simulation.boids: the list of prey
  predator,  \* Simulation.predator
  idx,       \* index in self.boids of the next prey of the for loop
  iter,      \* completed calls of iteration()
  snap,      \* history: boids + [predator] when the running iteration() began
  obs,       \* history: what the last interaction() call saw and did
  fed,       \* history: the list handed to the last eat() and the eater
  twin,      \* a second Simulation of the same process (same np.random)
  running,   \* run_simulation: the flag of its while loop
  game_over, \* run_simulation: the flag set when no boid is left
  main_pc,   \* run_simulation: position in the function, "none" outside it
  frame_iter,\* history: iter when the running frame of the loop began
  probe,     \* a lone Boid whose interaction() is called on chosen populations
  probe_log  \* history: what the calls on probe detected, and its exhaustion

\* the variables of run_simulation, and those of the lone Boid
host == <<running, game_over, main_pc, frame_iter>>
lone == <<probe, probe_log>>

vars == <<rng, pc, args, boids, predator, idx, iter, snap, obs, fed, twin,
          running, game_over, main_pc, frame_iter, probe, probe_log>>

(***************************************************************************)
(* Bounds of the model                                                     *)
(***************************************************************************)
Unit == 10          \* resolution of positions and velocities: 1/Unit
MaxBoids == 3       \* largest population count n handed to Simulation
MaxIter == 16       \* iteration() calls explored per Simulation
MaxTwinIter == 2    \* iteration() calls explored on the second Simulation
FlockSize == 30     \* the population count of run_simulation's Simulation
MaxFlockIter == 2   \* iteration() calls explored on a flock of FlockSize
MaxDrained == 300   \* calls counted on the lone Boid since its boost ran out

\* seeds handed to Simulation (2042 is the default of the constructor)
Seeds == {2042, 30, 134, 580, 1117}
\* seeds handed to the second Simulation
TwinSeeds == {2042, 30}
\* seeds handed to the Simulation of FlockSize boids
FlockSeeds == {2042, 30}
\* population counts handed to Simulation: range(n) accepts any integer
Counts == -1 .. MaxBoids

(***************************************************************************)
(* Program constants                                                       *)
(***************************************************************************)
taille == 300            \* Boid.taille
max_voisins == 10        \* Boid.max_voisins
maXVitesse == 10         \* Boid.maXVitesse
BoostUnit == 100         \* boost values count 1/100: the step 0.01 is 1
maxBoostValue == 300     \* Boid.maxBoostValue = 3
boostDecay == 50         \* 0.5
boostRegen == 1          \* 0.01
boostFloor == 100        \* the threshold 1 of move() and interaction()
predaBoost == 120        \* Predaboid.boostValue = 1.2
eating_range == 20       \* Predaboid.eating_range

(***************************************************************************)
(* Fixed-point arithmetic                                                  *)
(***************************************************************************)
Abs(a) == IF a < 0 THEN -a ELSE a

\* a / b rounded to the nearest integer (b > 0), halves upwards
RDiv(a, b) == (2 * a + b) \div (2 * b)

RECURSIVE SqrtSearch(_, _, _)
SqrtSearch(n, lo, hi) ==
  IF lo >= hi THEN lo
  ELSE LET mid == (lo + hi + 1) \div 2
       IN IF mid * mid <= n THEN SqrtSearch(n, mid, hi)
                            ELSE SqrtSearch(n, lo, mid - 1)

\* sqrt(n) rounded to the nearest integer, 0 <= n < 2^30
Sqrt(n) ==
  LET r == SqrtSearch(n, 0, 32767)
  IN IF n - r * r > r THEN r + 1 ELSE r

Zeros == <<0, 0>>
VAdd(u, v) == <<u[1] + v[1], u[2] + v[2]>>
VSub(u, v) == <<u[1] - v[1], u[2] - v[2]>>
VDiv(u, k) == <<RDiv(u[1], k), RDiv(u[2], k)>>
Dot(u, v) == u[1] * v[1] + u[2] * v[2]
Cross(u, v) == u[1] * v[2] - u[2] * v[1]
\* the square of np.linalg.norm(u)
Norm2(u) == Dot(u, u)

RECURSIVE VSum(_)
VSum(s) == IF s = <<>> THEN Zeros ELSE VAdd(Head(s), VSum(Tail(s)))

\* the slice taken whole
Take_all(s, k) == s

\* the first k elements: the slice s[:k]
Take(s, k) == IF Len(s) <= k THEN s ELSE SubSeq(s, 1, k)

NoCache == [i \in {} |-> 0]

(***************************************************************************)
(* np.random: a generator whose stream is a function of its seed           *)
(***************************************************************************)
\* np.random.seed(seed)
seed_rng(seed) == seed % 65536

\* the generator's next state
next_rng(s) == (25173 * s + 13849) % 65536

\* np.random.uniform(lo, hi) read off state s, in 1/Unit
uniform(s, lo, hi) == lo * Unit + (s * ((hi - lo) * Unit)) \div 65536

(***************************************************************************)
(* Boid                                                                    *)
(***************************************************************************)
\* Boid.__init__ with position and vitesse None: four draws, x then dx.
\* s is the generator's state before; the state after is Drawn(s, 4).
\* (a state is never negative; comparing it has it computed draw by draw)
RECURSIVE Drawn(_, _)
Drawn(s, k) == IF k = 0 \/ s < 0 THEN s ELSE Drawn(next_rng(s), k - 1)

Boid_init(s, ident) ==
  [id |-> ident,
   class |-> "Boid",
   x |-> <<uniform(Drawn(s, 1), -taille, taille),
           uniform(Drawn(s, 2), -taille, taille)>>,
   dx |-> <<uniform(Drawn(s, 3), -5, 5), uniform(Drawn(s, 4), -5, 5)>>,
   interactions |-> <<>>,
   boost |-> FALSE,
   boostValue |-> maxBoostValue,
   voisins_cache |-> NoCache,
   distances_cache |-> NoCache]

\* Boid(position, vitesse): nothing is drawn
Boid_at(position, vitesse, ident) ==
  [id |-> ident,
   class |-> "Boid",
   x |-> position,
   dx |-> vitesse,
   interactions |-> <<>>,
   boost |-> FALSE,
   boostValue |-> maxBoostValue,
   voisins_cache |-> NoCache,
   distances_cache |-> NoCache]

\* Predaboid(position, vitesse)
Predaboid_at(position, vitesse, ident) ==
  [Boid_at(position, vitesse, ident) EXCEPT !.class = "Predaboid",
                                            !.boostValue = predaBoost]

add_interaction(self, fun, poids) ==
  [self EXCEPT !.interactions = Append(@, <<fun, poids>>)]

\* buildBoidCentripete
buildBoidCentripete(s, ident) ==
  add_interaction(Boid_init(s, ident), "centripete", 200)

\* Predaboid.__init__
Predaboid_init(s, ident) ==
  [Boid_init(s, ident) EXCEPT !.class = "Predaboid", !.boostValue = predaBoost]

\* Boid.distance: the cached value when there is one, the norm otherwise
distance(self, other) ==
  IF other.id \in DOMAIN self.distances_cache
  THEN self.distances_cache[other.id]
  ELSE Norm2(VSub(self.x, other.x))

\* Boid.distance's effect on self._distances_cache
distance_cached(self, other) ==
  IF other.id \in DOMAIN self.distances_cache
  THEN self.distances_cache
  ELSE [i \in DOMAIN self.distances_cache \cup {other.id} |->
          IF i = other.id THEN Norm2(VSub(self.x, other.x))
          ELSE self.distances_cache[i]]

\* Boid.angle_mort: the angle between self.dx and other.x - self.x is above
\* 0.75 pi.  arccos(c) > 3pi/4 iff the cosine is negative and larger in
\* size than the sine, that is -dot > |cross|.
angle_mort(self, other) ==
  LET v1 == self.dx
      v2 == VSub(other.x, self.x)
  IN IF Norm2(v1) = 0 \/ Norm2(v2) = 0 THEN FALSE
     ELSE -Dot(v1, v2) > Abs(Cross(v1, v2))

\* sorted(..., key): a stable insertion sort, key(a) <= key(b) keeps a first
RECURSIVE Insert(_, _, _)
Insert(self, o, s) ==
  IF s = <<>> THEN <<o>>
  ELSE IF distance(self, o) < distance(self, Head(s))
       THEN <<o>> \o s
       ELSE <<Head(s)>> \o Insert(self, o, Tail(s))

RECURSIVE SortedByDistance(_, _)
SortedByDistance(self, s) ==
  IF s = <<>> THEN <<>>
  ELSE Insert(self, s[Len(s)], SortedByDistance(self, SubSeq(s, 1, Len(s) - 1)))

\* self._distances_cache after voisins has run over population: emptied,
\* then filled with the distance to every member but self
RECURSIVE distances_after(_, _)
distances_after(self, population) ==
  IF population = <<>> THEN [self EXCEPT !.distances_cache = NoCache]
  ELSE LET o == population[Len(population)]
           me == distances_after(self, SubSeq(population, 1, Len(population) - 1))
       IN IF o.id = self.id THEN me
          ELSE [me EXCEPT !.distances_cache = distance_cached(me, o)]

\* Boid.voisins on a cache miss (interaction empties _voisins_cache and
\* asks each radius of a population once before it is cached)
voisins(self, population, seuil) ==
  LET me == distances_after(self, population)
      seen(o) == /\ o.id # self.id
                 /\ distance(me, o) < (seuil * Unit) * (seuil * Unit)
                 /\ ~angle_mort(self, o)
  IN SortedByDistance(me, SelectSeq(population, seen))

Ids(s) == [k \in 1 .. Len(s) |-> s[k].id]
Xs(s) == [k \in 1 .. Len(s) |-> s[k].x]
Dxs(s) == [k \in 1 .. Len(s) |-> s[k].dx]

\* Boid.separation, and Predaboid.separation's override
separation(self, population) ==
  IF self.class = "Predaboid" THEN Zeros
  ELSE LET voisins_proches == Take(voisins(self, population, 50), max_voisins)
       IN IF voisins_proches = <<>> THEN Zeros
          ELSE VSum([k \in 1 .. Len(voisins_proches) |->
                       VSub(self.x, voisins_proches[k].x)])

\* align with the mean of no velocity taken as zero
align_unguarded(self, population) ==
  LET vs == Take(voisins(self, population, 200), max_voisins)
  IN IF vs = <<>> THEN VSub(Zeros, self.dx)
     ELSE VSub(VDiv(VSum(Dxs(vs)), Len(vs)), self.dx)

\* Boid.align
align(self, population) ==
  LET vs == Take(voisins(self, population, 200), max_voisins)
  IN IF vs = <<>> THEN Zeros
     ELSE VSub(VDiv(VSum(Dxs(vs)), Len(vs)), self.dx)

\* Boid.cohere
cohere(self, population) ==
  LET vs == Take(voisins(self, population, 200), max_voisins)
  IN IF vs = <<>> THEN Zeros
     ELSE VSub(VDiv(VSum(Xs(vs)), Len(vs)), self.x)

\* detect_predator without its blind spot
detect_predator_unsighted(self, population) ==
  \E k \in 1 .. Len(population) :
    /\ population[k].class = "Predaboid"
    /\ distance(self, population[k]) < (150 * Unit) * (150 * Unit)

\* Boid.detect_predator
detect_predator(self, population) ==
  \E k \in 1 .. Len(population) :
    /\ population[k].class = "Predaboid"
    /\ distance(self, population[k]) < (150 * Unit) * (150 * Unit)
    /\ ~angle_mort(self, population[k])

\* the repulsion of flee_predator from one predator at squared distance d2:
\* (self.x - other.x) / norm * (400 / max(dist, 10)), in 1/Unit
repulsion(self, other, d2) ==
  LET dist == Sqrt(d2)
      direction == VSub(self.x, other.x)
      norm == Sqrt(Norm2(direction))
      far == IF dist > 10 * Unit THEN dist ELSE 10 * Unit
  IN IF norm > 0
     THEN <<RDiv(direction[1] * 400 * Unit * Unit, norm * far),
            RDiv(direction[2] * 400 * Unit * Unit, norm * far)>>
     ELSE <<direction[1] * 40, direction[2] * 40>>

\* Boid.flee_predator, and Predaboid.flee_predator's override
RECURSIVE flee_predator(_, _)
flee_predator(self, population) ==
  IF self.class = "Predaboid" \/ population = <<>> THEN Zeros
  ELSE LET other == Head(population)
       IN IF /\ other.class = "Predaboid"
             /\ ~angle_mort(self, other)
             /\ distance(self, other) < (250 * Unit) * (250 * Unit)
          THEN repulsion(self, other, distance(self, other))
          ELSE flee_predator(self, Tail(population))

\* centripete, the force buildBoidCentripete attaches
external(fun, self, population) ==
  IF fun = "centripete" THEN <<-self.x[1], -self.x[2]>>
  ELSE IF fun = "centrifuge" THEN self.x
  ELSE Zeros

(***************************************************************************)
(* Boid.interaction, step by step                                          *)
(***************************************************************************)
\* lines 270-281: the caches are emptied and refilled by the voisins calls,
\* then self.dx += separation/50 + align/8 + cohere/100 + flee_predator/2
steered(self, population) ==
  LET me == distances_after(self, population)
      radii == IF self.class = "Predaboid" THEN {25, 200} ELSE {25, 50, 200}
      force == VAdd(VAdd(VAdd(VDiv(separation(self, population), 50),
                              VDiv(align(self, population), 8)),
                         VDiv(cohere(self, population), 100)),
                    VDiv(flee_predator(me, population), 2))
  IN [me EXCEPT
        !.voisins_cache = [r \in radii |-> Ids(voisins(self, population, r))],
        !.dx = VAdd(self.dx, force)]

\* the boost switched on in sight of a predaboid, whatever boostValue is
boosted_any(self, population) ==
  [self EXCEPT !.boost = detect_predator(self, population)]

\* lines 283-287: the boost is switched on only in sight of a predaboid.
\* (In doubles 0.01 added 100 times to 0 gives 1.0000000000000007, which is
\* above 1; here it gives boostFloor exactly, which is not: the two differ
\* for a boostValue regenerated from 0 to 1, and nowhere below it.)
boosted(self, population) ==
  [self EXCEPT !.boost = /\ detect_predator(self, population)
                         /\ self.boostValue > boostFloor]

\* lines 289-291: the attached forces, in the order they were added
RECURSIVE pushed(_, _, _)
pushed(self, population, k) ==
  IF k > Len(self.interactions) THEN self
  ELSE LET fun == self.interactions[k][1]
           poids == self.interactions[k][2]
       IN pushed([self EXCEPT !.dx = VAdd(@, VDiv(external(fun, self, population), poids))],
                 population, k + 1)

\* interaction() without its speed limit
limited_never(self) == self

\* lines 293-296: self.dx * maXVitesse / vitesse when vitesse > maXVitesse
limited(self) ==
  LET v2 == Norm2(self.dx)
      vitesse_actuelle == Sqrt(v2)
  IN IF v2 > (maXVitesse * Unit) * (maXVitesse * Unit)
     THEN [self EXCEPT !.dx = <<RDiv(self.dx[1] * maXVitesse * Unit, vitesse_actuelle),
                                RDiv(self.dx[2] * maXVitesse * Unit, vitesse_actuelle)>>]
     ELSE self

\* self.x += self.dx * self.boostValue
advanced(self) ==
  [self EXCEPT !.x = <<self.x[1] + RDiv(self.dx[1] * self.boostValue, BoostUnit),
                       self.x[2] + RDiv(self.dx[2] * self.boostValue, BoostUnit)>>]

\* the boosting branch without its test of boostValue <= 1
decayed_unfloored(self) ==
  [self EXCEPT !.boostValue = self.boostValue - boostDecay]

\* Boid.move, the boosting branch (lines 318-324)
decayed(self) ==
  IF self.boostValue - boostDecay <= boostFloor
  THEN [self EXCEPT !.boostValue = 0, !.boost = FALSE]
  ELSE [self EXCEPT !.boostValue = self.boostValue - boostDecay]

\* a move() that regenerates nothing
regenerated_never(self) == self

\* the regeneration without its ceiling
regenerated_unclamped(self) ==
  [self EXCEPT !.boostValue = self.boostValue + boostRegen]

\* Boid.move, the other branch (lines 327-333)
regenerated(self) ==
  IF self.boostValue <= maxBoostValue
  THEN IF self.boostValue + boostRegen >= maxBoostValue
       THEN [self EXCEPT !.boostValue = maxBoostValue]
       ELSE [self EXCEPT !.boostValue = self.boostValue + boostRegen]
  ELSE self

\* Predaboid without its override of move(): Boid.move is inherited
Predaboid_move_inherited(self) ==
  IF self.boost THEN decayed(advanced(self)) ELSE regenerated(advanced(self))

\* Predaboid.move
Predaboid_move(self) == advanced(self)

\* Boid.move, and Predaboid.move's override
move(self) ==
  IF self.class = "Predaboid" THEN Predaboid_move(self)
  ELSE IF self.boost THEN decayed(advanced(self))
  ELSE regenerated(advanced(self))

\* lines 303-309 for one axis: coord is the coordinate enumerate() read
rebound(self, i) ==
  LET coord == self.x[i]
      low == IF coord + taille * Unit < 10 * Unit
             THEN [self EXCEPT !.x[i] = -(taille * Unit) + 10 * Unit
                                        + (coord + taille * Unit),
                               !.dx[i] = -self.dx[i]]
             ELSE self
  IN IF taille * Unit - coord < 10 * Unit
     THEN [low EXCEPT !.x[i] = taille * Unit - 10 * Unit - (taille * Unit - coord),
                      !.dx[i] = -low.dx[i]]
     ELSE low

\* lines 301-309: the rebound on the frame
bounced(self) ==
  IF Abs(self.x[1]) > taille * Unit \/ Abs(self.x[2]) > taille * Unit
  THEN rebound(rebound(self, 1), 2)
  ELSE self

\* the boid when interaction() reaches self.move()
before_move(self, population) ==
  limited(pushed(boosted(steered(self, population), population), population, 1))

\* Boid.interaction
interaction(self, population) == bounced(move(before_move(self, population)))

(***************************************************************************)
(* Predaboid.eat                                                           *)
(***************************************************************************)
\* eat() putting each survivor at the head of the new list
RECURSIVE eat_prepend(_, _)
eat_prepend(self, population) ==
  IF population = <<>> THEN <<>>
  ELSE LET boid == Head(population)
           rest == eat_prepend([self EXCEPT !.distances_cache = distance_cached(self, boid)],
                               Tail(population))
       IN IF distance(self, boid) > (eating_range * Unit) * (eating_range * Unit)
          THEN rest \o <<boid>>
          ELSE rest

\* the list eat() returns
RECURSIVE eat(_, _)
eat(self, population) ==
  IF population = <<>> THEN <<>>
  ELSE LET boid == Head(population)
           rest == eat([self EXCEPT !.distances_cache = distance_cached(self, boid)],
                       Tail(population))
       IN IF distance(self, boid) > (eating_range * Unit) * (eating_range * Unit)
          THEN <<boid>> \o rest
          ELSE rest

\* the predaboid after eat(): its distance() calls have filled its cache
RECURSIVE eat_cached(_, _)
eat_cached(self, population) ==
  IF population = <<>> THEN self
  ELSE eat_cached([self EXCEPT !.distances_cache = distance_cached(self, Head(population))],
                  Tail(population))

(***************************************************************************)
(* Simulation                                                              *)
(***************************************************************************)
NoAgent == [id |-> -1]
NoArgs == [n |-> 0, seed |-> -1]
NoObs == [who |-> -1]
NoLog == [calling |-> FALSE, population |-> <<>>,
          detected |-> FALSE, boosted |-> FALSE, drained |-> -1, chased |-> FALSE]
NoSim == [built |-> FALSE, args |-> NoArgs, boids |-> <<>>, predator |-> NoAgent,
          iter |-> 0]

\* the population built over range(abs(n))
population_built_abs(s, n) ==
  [k \in 1 .. Abs(n) |-> buildBoidCentripete(Drawn(s, 4 * (k - 1)), k)]

\* list(buildBoidCentripete() for _ in range(n)), the generator in state s
population_built(s, n) ==
  [k \in 1 .. n |-> buildBoidCentripete(Drawn(s, 4 * (k - 1)), k)]

\* Simulation.__init__ without its np.random.seed(seed)
seeded_never(s, seed) == s

\* the generator's state when Simulation.__init__ draws: np.random.seed(seed)
seeded(s, seed) == seed_rng(seed)

\* Simulation.__init__(n, seed) with np.random in state s
Simulation_init(s, n, seed) ==
  LET s0 == seeded(s, seed)
      made == population_built(s0, n)
  IN [built |-> TRUE,
      args |-> [n |-> n, seed |-> seed],
      boids |-> made,
      predator |-> Predaboid_init(Drawn(s0, 4 * Len(made)), 0),
      iter |-> 0]

\* np.random after Simulation.__init__(n, seed): four draws per agent
rng_after(s, n, seed) ==
  Drawn(seeded(s, seed), 4 * Len(population_built(seeded(s, seed), n)) + 4)

\* every prey handed the prey list alone
perceived_prey_only(bs, pred) == bs

\* every prey handed the population of the start of the iteration
perceived_at_start(bs, pred) == snap

\* self.boids + [self.predator]
perceived(bs, pred) == bs \o <<pred>>

\* a turn of the loop in which every prey of the list interacts
prey_turn_all(bs, pred, k) ==
  [j \in 1 .. Len(bs) |-> interaction(bs[j], perceived(bs, pred))]

\* one turn of the for loop of iteration(): the k-th prey interacts
prey_turn(bs, pred, k) ==
  [bs EXCEPT ![k] = interaction(bs[k], perceived(bs, pred))]

RECURSIVE prey_loop(_, _, _)
prey_loop(bs, pred, k) ==
  IF k > Len(bs) THEN bs ELSE prey_loop(prey_turn(bs, pred, k), pred, k + 1)

\* Simulation.iteration as a whole
iteration(sim) ==
  LET moved == prey_loop(sim.boids, sim.predator, 1)
      left == eat(sim.predator, moved)
      eater == eat_cached(sim.predator, moved)
  IN [sim EXCEPT !.boids = left,
                 !.predator = interaction(eater, left),
                 !.iter = sim.iter + 1]

\* what an interaction() call saw and did
observed(self, population) ==
  [who |-> self.id,
   ids |-> Ids(population),
   xs |-> Xs(population),
   dxs |-> Dxs(population),
   before |-> self,
   separation |-> separation(self, population),
   align |-> align(self, population),
   cohere |-> cohere(self, population),
   steered |-> steered(self, population),
   detected |-> detect_predator(steered(self, population), population),
   pushed |-> pushed(boosted(steered(self, population), population), population, 1),
   at_move |-> before_move(self, population),
   moved |-> move(before_move(self, population))]

\* where a predaboid stands for the lone Boid, which rests at the origin:
\* on the boid itself (nearer than 150, and no direction to flee in), or
\* beyond every radius of the boid
ProbePlaces == {Zeros, <<280 * Unit, 0>>}

\* the populations handed to the lone Boid's interaction()
ProbePopulations ==
  {<<>>} \cup {<<Predaboid_at(place, Zeros, 0)>> : place \in ProbePlaces}

\* the history of the lone Boid after interaction(population) on self:
\* drained counts the calls since a boosting move() last set boostValue to
\* 0 (-1: not counting; the count runs through the first 100 calls
\* whatever they do, and is dropped by a later boost), chased tells
\* whether a predaboid was detected in those calls
logged(log, self, population) ==
  LET call == observed(self, population)
      exhausted == call.at_move.boost /\ call.moved.boostValue = 0
      count == IF log.drained \in 0 .. 99 THEN log.drained + 1
               ELSE IF exhausted THEN 0
               ELSE IF call.at_move.boost \/ log.drained = -1 THEN -1
               ELSE IF log.drained < MaxDrained THEN log.drained + 1
               ELSE MaxDrained
  IN [calling |-> FALSE,
      population |-> <<>>,
      detected |-> call.detected,
      boosted |-> call.at_move.boost,
      drained |-> count,
      chased |-> IF count <= 0 THEN FALSE ELSE log.chased \/ call.detected]

(***************************************************************************)
(* The state machine                                                       *)
(***************************************************************************)
Init ==
  /\ rng \in {0, 1}
  /\ pc = "new"
  /\ args = NoArgs
  /\ boids = <<>>
  /\ predator = NoAgent
  /\ idx = 0
  /\ iter = 0
  /\ snap = <<>>
  /\ obs = NoObs
  /\ fed = <<>>
  /\ twin = NoSim
  /\ running = FALSE
  /\ game_over = FALSE
  /\ main_pc = "none"
  /\ frame_iter = 0
  /\ probe = NoAgent
  /\ probe_log = NoLog

\* simulation = Simulation(n, seed)
Construct ==
  /\ pc = "new"
  /\ \E n \in Counts, seed \in Seeds :
       LET sim == Simulation_init(rng, n, seed)
       IN /\ args' = sim.args
          /\ boids' = sim.boids
          /\ predator' = sim.predator
          /\ rng' = rng_after(rng, n, seed)
  /\ pc' = "idle"
  /\ UNCHANGED <<idx, iter, snap, obs, fed, twin>>
  /\ UNCHANGED <<host, lone>>

\* simulation.iteration() is entered
Call ==
  /\ pc = "idle"
  /\ iter < MaxIter
  /\ pc' = "prey"
  /\ idx' = 1
  /\ snap' = boids \o <<predator>>
  /\ UNCHANGED <<rng, args, boids, predator, iter, obs, fed, twin>>
  /\ UNCHANGED <<host, lone>>

\* boid.interaction(self.boids + [self.predator]) for the next boid
PreyInteraction ==
  /\ pc = "prey"
  /\ idx <= Len(boids)
  /\ boids' = prey_turn(boids, predator, idx)
  /\ obs' = observed(boids[idx], perceived(boids, predator))
  /\ idx' = idx + 1
  /\ UNCHANGED <<rng, pc, args, predator, iter, snap, fed, twin>>
  /\ UNCHANGED <<host, lone>>

\* self.boids = self.predator.eat(self.boids)
Eat ==
  /\ pc = "prey"
  /\ idx > Len(boids)
  /\ boids' = eat(predator, boids)
  /\ predator' = eat_cached(predator, boids)
  /\ fed' = boids
  /\ pc' = "pred"
  /\ UNCHANGED <<rng, args, idx, iter, snap, obs, twin>>
  /\ UNCHANGED <<host, lone>>

\* self.predator.interaction(self.boids); iteration() returns
PredatorInteraction ==
  /\ pc = "pred"
  /\ predator' = interaction(predator, boids)
  /\ obs' = observed(predator, boids)
  /\ pc' = "idle"
  /\ iter' = iter + 1
  /\ UNCHANGED <<rng, args, boids, idx, snap, fed, twin>>
  /\ UNCHANGED <<host, lone>>

\* a second Simulation(n, seed) is constructed in the same process
ConstructTwin ==
  /\ ~twin.built
  /\ \E n \in Counts, seed \in TwinSeeds :
       /\ twin' = Simulation_init(rng, n, seed)
       /\ rng' = rng_after(rng, n, seed)
  /\ UNCHANGED <<pc, args, boids, predator, idx, iter, snap, obs, fed>>
  /\ UNCHANGED <<host, lone>>

\* the second Simulation's iteration()
IterateTwin ==
  /\ twin.built
  /\ twin.iter < MaxTwinIter
  /\ twin' = iteration(twin)
  /\ UNCHANGED <<rng, pc, args, boids, predator, idx, iter, snap, obs, fed>>
  /\ UNCHANGED <<host, lone>>

\* simulation = Simulation(n=30), with the default seed or a chosen one
ConstructFlock ==
  /\ pc = "new"
  /\ \E seed \in FlockSeeds :
       LET sim == Simulation_init(rng, FlockSize, seed)
       IN /\ args' = sim.args
          /\ boids' = sim.boids
          /\ predator' = sim.predator
          /\ rng' = rng_after(rng, FlockSize, seed)
  /\ pc' = "idle"
  /\ UNCHANGED <<idx, iter, snap, obs, fed, twin>>
  /\ UNCHANGED <<host, lone>>

\* run_simulation() is entered: lines 13-27 and 33-38, before the loop
MainStart ==
  /\ main_pc = "none"
  /\ pc = "new"
  /\ running' = TRUE
  /\ game_over' = FALSE
  /\ main_pc' = "init"
  /\ UNCHANGED <<rng, pc, args, boids, predator, idx, iter, snap, obs, fed, twin>>
  /\ UNCHANGED <<frame_iter, lone>>

\* while running: a frame begins, or the loop is left
MainWhile ==
  /\ \/ main_pc = "init" /\ pc = "idle"
     \/ main_pc = "while"
  /\ main_pc' = IF running THEN "events" ELSE "quit"
  /\ frame_iter' = iter
  /\ UNCHANGED <<rng, pc, args, boids, predator, idx, iter, snap, obs, fed, twin>>
  /\ UNCHANGED <<running, game_over, lone>>

\* for event in pygame.event.get(): a QUIT event clears running
MainEvents ==
  /\ main_pc = "events"
  /\ \E quit \in BOOLEAN : running' = IF quit THEN FALSE ELSE running
  /\ main_pc' = "check"
  /\ UNCHANGED <<rng, pc, args, boids, predator, idx, iter, snap, obs, fed, twin>>
  /\ UNCHANGED <<game_over, frame_iter, lone>>

\* if len(simulation.boids) == 0 and not game_over: game_over = True
MainCheck ==
  /\ main_pc = "check"
  /\ game_over' = IF Len(boids) = 0 /\ ~game_over THEN TRUE ELSE game_over
  /\ main_pc' = "update"
  /\ UNCHANGED <<rng, pc, args, boids, predator, idx, iter, snap, obs, fed, twin>>
  /\ UNCHANGED <<running, frame_iter, lone>>

\* the update without its test of game_over
MainUpdate_always ==
  /\ main_pc = "update"
  /\ pc = "idle"
  /\ iter = frame_iter
  /\ Call

\* if not game_over: simulation.iteration()
MainUpdate ==
  /\ main_pc = "update"
  /\ pc = "idle"
  /\ iter = frame_iter
  /\ IF ~game_over
     THEN Call
     ELSE /\ main_pc' = "draw"
          /\ UNCHANGED <<rng, pc, args, boids, predator, idx, iter, snap, obs, fed, twin>>
          /\ UNCHANGED <<running, game_over, frame_iter, lone>>

\* simulation.iteration() has returned to the loop
MainReturn ==
  /\ main_pc = "update"
  /\ pc = "idle"
  /\ iter > frame_iter
  /\ main_pc' = "draw"
  /\ UNCHANGED <<rng, pc, args, boids, predator, idx, iter, snap, obs, fed, twin>>
  /\ UNCHANGED <<running, game_over, frame_iter, lone>>

\* lines 57-72: the frame is drawn and flipped, the clock ticks
MainDraw ==
  /\ main_pc = "draw"
  /\ main_pc' = "while"
  /\ UNCHANGED <<rng, pc, args, boids, predator, idx, iter, snap, obs, fed, twin>>
  /\ UNCHANGED <<running, game_over, frame_iter, lone>>

\* boid = Boid(np.zeros(2), np.zeros(2)); boid.add_interaction(centripete, 200)
ProbeStart ==
  /\ probe = NoAgent
  /\ probe' = add_interaction(Boid_at(Zeros, Zeros, 1), "centripete", 200)
  /\ probe_log' = NoLog
  /\ UNCHANGED <<rng, pc, args, boids, predator, idx, iter, snap, obs, fed, twin>>
  /\ UNCHANGED host

\* the caller calls boid.interaction(population), a population of its choice
ProbeCall ==
  /\ probe # NoAgent
  /\ ~probe_log.calling
  /\ \E population \in ProbePopulations :
       probe_log' = [probe_log EXCEPT !.calling = TRUE, !.population = population]
  /\ UNCHANGED <<rng, pc, args, boids, predator, idx, iter, snap, obs, fed, twin>>
  /\ UNCHANGED <<host, probe>>

\* Boid.interaction runs on the lone Boid and returns
ProbeInteraction ==
  /\ probe # NoAgent
  /\ probe_log.calling
  /\ probe' = interaction(probe, probe_log.population)
  /\ probe_log' = logged(probe_log, probe, probe_log.population)
  /\ UNCHANGED <<rng, pc, args, boids, predator, idx, iter, snap, obs, fed, twin>>
  /\ UNCHANGED host

Next == Construct \/ Call \/ PreyInteraction \/ Eat \/ PredatorInteraction

Spec == Init /\ [][Next]_vars

\* the two Simulations side by side, each for MaxTwinIter iterations
NextTwin ==
  \/ Construct
  \/ (iter < MaxTwinIter /\ Call)
  \/ PreyInteraction
  \/ Eat
  \/ PredatorInteraction
  \/ ConstructTwin
  \/ IterateTwin

SpecTwin == Init /\ [][NextTwin]_vars

\* the flock of run_simulation, for MaxFlockIter iterations
NextFlock ==
  \/ ConstructFlock
  \/ (iter < MaxFlockIter /\ Call)
  \/ PreyInteraction
  \/ Eat
  \/ PredatorInteraction

SpecFlock == Init /\ [][NextFlock]_vars

\* run_simulation: the Simulation is stepped by the frames of the loop only.
\* (run_simulation builds Simulation(n=30); the loop is the same for every
\* n, and the counts of Counts bring the end of the flock within reach.)
NextMain ==
  \/ MainStart
  \/ (main_pc = "init" /\ Construct)
  \/ MainWhile
  \/ MainEvents
  \/ MainCheck
  \/ MainUpdate
  \/ PreyInteraction
  \/ Eat
  \/ PredatorInteraction
  \/ MainReturn
  \/ MainDraw

SpecMain == Init /\ [][NextMain]_vars

\* one Boid, its interaction() called again and again
NextProbe == ProbeStart \/ ProbeCall \/ ProbeInteraction

SpecProbe == Init /\ [][NextProbe]_vars

\* the same with a caller that never ceases to call
SpecProbeLive ==
  Init /\ [][NextProbe]_vars /\ WF_vars(ProbeStart) /\ WF_vars(ProbeCall)

(***************************************************************************)
(* Properties                                                              *)
(***************************************************************************)
Built == pc # "new"
Agents == boids \o <<predator>>
Limit2 == (maXVitesse * Unit) * (maXVitesse * Unit)
Inside(x) == Abs(x[1]) <= taille * Unit /\ Abs(x[2]) <= taille * Unit

\* a prey of the running iteration() has just interacted: obs is its call,
\* and it is boids[idx - 1]
PreyJustActed == pc = "prey" /\ idx > 1

RECURSIVE IsSubsequence(_, _)
IsSubsequence(s, t) ==
  IF s = <<>> THEN TRUE
  ELSE IF t = <<>> THEN FALSE
  ELSE IF Head(s) = Head(t) THEN IsSubsequence(Tail(s), Tail(t))
  ELSE IsSubsequence(s, Tail(t))

\* C1 as stated: every prey's interaction() reads the positions and
\* velocities all agents had when the iteration began.
C1_ReadsStartSnapshot ==
  PreyJustActed => obs.xs = Xs(snap) /\ obs.dxs = Dxs(snap)

\* C1 as amended: the prey are updated in place in list order, so the k-th
\* prey reads the already updated positions and velocities of the prey
\* before it in the list, and the start-of-iteration ones of itself, of the
\* prey after it and of the predator.
C1_ReadsInPlaceUpdates ==
  PreyJustActed =>
    /\ obs.who = boids[idx - 1].id
    /\ obs.ids = Ids(snap)
    /\ \A j \in 1 .. Len(obs.ids) :
         IF j < idx - 1
         THEN obs.xs[j] = boids[j].x /\ obs.dxs[j] = boids[j].dx
         ELSE obs.xs[j] = snap[j].x /\ obs.dxs[j] = snap[j].dx

\* a later prey has read a position that an earlier prey's interaction()
\* changed in the same iteration
C1_Witness ==
  /\ PreyJustActed
  /\ idx > 2
  /\ obs.xs[1] # snap[1].x
  /\ obs.xs[1] = boids[1].x

\* C2 as stated: eat() keeps exactly the prey farther than eating_range
\* from the predator, by the positions both have when eat() is called.
C2_EatsByCurrentDistance ==
  pc = "pred" =>
    LET far(b) == Norm2(VSub(predator.x, b.x))
                    > (eating_range * Unit) * (eating_range * Unit)
    IN Ids(boids) = Ids(SelectSeq(fed, far))

\* C3: after construction the prey list only shrinks: every step leaves a
\* subsequence of the list before it (same agents, same order), so no agent
\* is added and an empty list stays empty.
C3_PreyListOnlyShrinks ==
  [][Built => /\ IsSubsequence(Ids(boids'), Ids(boids))
              /\ (boids = <<>> => boids' = <<>>)]_vars

\* the predator has eaten some prey and left at least two, in their order
C3_Witness ==
  /\ Built
  /\ Len(boids) < args.n
  /\ Len(boids) >= 2

\* C4 as stated: after the boundary step every coordinate of every agent
\* lies in [-taille, taille].
C4_StaysInsideArena ==
  Built => \A k \in 1 .. Len(Agents) : Inside(Agents[k].x)

\* C5: every agent's boostValue is within [0, maxBoostValue], after every
\* step.
C5_BoostValueInRange ==
  Built => \A k \in 1 .. Len(Agents) :
             Agents[k].boostValue >= 0 /\ Agents[k].boostValue <= 300

\* a prey that boosted until exhaustion and has regenerated since
C5_Witness ==
  /\ Built
  /\ \E k \in 1 .. Len(boids) : boids[k].boostValue \in 2 .. 99

\* C6 as stated: after every interaction() the speed of every agent is at
\* most maXVitesse.
C6_SpeedAtMostMax ==
  Built => \A k \in 1 .. Len(Agents) : Norm2(Agents[k].dx) <= Limit2

\* C6 as amended: the speed is at most maXVitesse up to the rounding of the
\* rescale (two units of resolution here); the rescale keeps the sign of
\* each component and leaves a velocity within the limit alone, and the
\* rebound keeps the norm.
C6_SpeedWithinRounding ==
  /\ Built => \A k \in 1 .. Len(Agents) :
                Norm2(Agents[k].dx) <= (maXVitesse * Unit + 2) * (maXVitesse * Unit + 2)
  /\ obs.who >= 0 =>
       /\ \A i \in 1 .. 2 : obs.pushed.dx[i] * obs.at_move.dx[i] >= 0
       /\ Norm2(obs.pushed.dx) <= Limit2 => obs.at_move.dx = obs.pushed.dx
       /\ Norm2(obs.pushed.dx) > Limit2 =>
            /\ Norm2(obs.at_move.dx) <= Norm2(obs.pushed.dx)
            /\ Norm2(obs.at_move.dx) >= (maXVitesse * Unit - 2) * (maXVitesse * Unit - 2)
       /\ Norm2(bounced(obs.moved).dx) = Norm2(obs.at_move.dx)

\* the limit has rescaled an over-fast velocity, and left it above 10
C6_Witness ==
  /\ obs.who >= 0
  /\ Norm2(obs.pushed.dx) > 4 * Limit2
  /\ Norm2(obs.at_move.dx) > Limit2

\* C7 as stated: no Simulation is produced for a negative n.
C7_NegativeCountRejected == ~(Built /\ args.n < 0)

\* C7 as amended: a negative n raises nothing: range(n) is empty, and the
\* Simulation is built with an empty prey list and its predator.
C7_NegativeCountBuildsEmpty ==
  (Built /\ args.n < 0) =>
    /\ boids = <<>>
    /\ predator.class = "Predaboid"
    /\ Inside(predator.x)

C7_Witness == pc = "idle" /\ args.n < 0 /\ iter > 0

C9_SameSeedSameRun ==
  (pc = "idle" /\ twin.built /\ twin.args = args /\ twin.iter = iter) =>
    /\ Ids(twin.boids) = Ids(boids)
    /\ twin.boids = boids
    /\ twin.predator = predator

C9_Witness ==
  /\ pc = "idle"
  /\ twin.built
  /\ twin.args = args
  /\ args.n >= 2
  /\ iter = MaxTwinIter
  /\ twin.iter = iter

\* C10: the predator's boostValue stays 1.2, its boost flag stays false and
\* each of its steps moves it by velocity x 1.2.
C10_PredatorBoostFixed ==
  Built =>
    /\ predator.boostValue = 120
    /\ ~predator.boost
    /\ obs.who = 0 =>
         /\ ~obs.at_move.boost
         /\ obs.moved.x = <<obs.at_move.x[1] + RDiv(obs.at_move.dx[1] * 12, 10),
                            obs.at_move.x[2] + RDiv(obs.at_move.dx[2] * 12, 10)>>

\* the predator has stepped several times among prey it sees
C10_Witness ==
  /\ iter >= 3
  /\ obs.who = 0
  /\ obs.at_move.voisins_cache[200] # <<>>
  /\ obs.at_move.dx # obs.before.dx

\* the other agent lies more than 135 degrees off the heading: the cosine of
\* the angle is below -sqrt(2)/2; never with a vector of zero length
Behind(heading, toOther) ==
  /\ Norm2(heading) # 0
  /\ Norm2(toOther) # 0
  /\ -Dot(heading, toOther) > Abs(Cross(heading, toOther))

\* the place in the perceived population of the agent with this id
PlaceOf(ident) == CHOOSE j \in 1 .. Len(obs.ids) : obs.ids[j] = ident

\* the squared distance from the agent that acted to the j-th perceived one
Away2(j) == Norm2(VSub(obs.xs[j], obs.before.x))

\* the at most max_voisins first of the neighbours found within radius r
Nearest(r) ==
  LET found == obs.at_move.voisins_cache[r]
  IN [k \in 1 .. (IF Len(found) < max_voisins THEN Len(found) ELSE max_voisins) |->
        PlaceOf(found[k])]

\* C11: the neighbours interaction() finds within each radius are exactly
\* the perceived agents other than self that are nearer than the radius and
\* not more than 135 degrees off self's heading, each once, in order of
\* non-decreasing distance; separation, align and cohere are computed from
\* the at most 10 first of them.
C11_VoisinsExactSortedCapped ==
  obs.who >= 0 =>
    /\ \A r \in DOMAIN obs.at_move.voisins_cache :
         LET found == obs.at_move.voisins_cache[r]
             seen == {j \in 1 .. Len(obs.ids) :
                        /\ obs.ids[j] # obs.who
                        /\ Away2(j) < (r * Unit) * (r * Unit)
                        /\ ~Behind(obs.before.dx, VSub(obs.xs[j], obs.before.x))}
         IN /\ Len(found) = Cardinality(seen)
            /\ {found[k] : k \in 1 .. Len(found)} = {obs.ids[j] : j \in seen}
            /\ \A k \in 1 .. Len(found) - 1 :
                 Away2(PlaceOf(found[k])) <= Away2(PlaceOf(found[k + 1]))
    /\ LET near == Nearest(200)
       IN IF near = <<>>
          THEN obs.align = Zeros /\ obs.cohere = Zeros
          ELSE /\ obs.align =
                    VSub(VDiv(VSum([k \in 1 .. Len(near) |-> obs.dxs[near[k]]]), Len(near)),
                         obs.before.dx)
               /\ obs.cohere =
                    VSub(VDiv(VSum([k \in 1 .. Len(near) |-> obs.xs[near[k]]]), Len(near)),
                         obs.before.x)
    /\ IF obs.who = 0 THEN obs.separation = Zeros
       ELSE LET near == Nearest(50)
            IN obs.separation =
                 VSum([k \in 1 .. Len(near) |-> VSub(obs.before.x, obs.xs[near[k]])])

\* a boid of the flock has found more than 10 neighbours within 200, and
\* has left out agents that are too far or behind it
C11_Witness ==
  /\ obs.who >= 1
  /\ Len(obs.at_move.voisins_cache[200]) > max_voisins
  /\ Len(obs.at_move.voisins_cache[200]) < Len(obs.ids) - 1
  /\ Len(obs.at_move.voisins_cache[50]) >= 2
  /\ \E j \in 1 .. Len(obs.ids) :
       /\ Away2(j) < (200 * Unit) * (200 * Unit)
       /\ Behind(obs.before.dx, VSub(obs.xs[j], obs.before.x))

\* C12: iteration() runs its three phases in order: every prey of the list
\* interacts, each perceiving the whole list followed by the predator where
\* it stands; then eat() runs once, on the list of prey that have all
\* interacted; then the predator interacts, perceiving exactly the list
\* eat() left, where the prey stand: not itself, and no prey eaten.
C12_PhasesInOrder ==
  [][/\ (pc = "idle" /\ pc' # "idle") => pc' = "prey" /\ idx' = 1 /\ boids' = boids
     /\ (pc = "prey" /\ pc' = "prey") =>
          /\ idx <= Len(boids)
          /\ idx' = idx + 1
          /\ obs'.who = boids[idx].id
          /\ obs'.ids = Ids(boids) \o <<predator.id>>
          /\ obs'.xs = Xs(boids) \o <<predator.x>>
          /\ predator' = predator
     /\ (pc = "prey" /\ pc' # "prey") =>
          /\ pc' = "pred"
          /\ idx = Len(boids) + 1
          /\ fed' = boids
          /\ IsSubsequence(Ids(boids'), Ids(boids))
     /\ (pc = "pred" /\ pc' # "pred") =>
          /\ pc' = "idle"
          /\ iter' = iter + 1
          /\ boids' = boids
          /\ obs'.who = predator.id
          /\ obs'.ids = Ids(boids)
          /\ obs'.xs = Xs(boids)
          /\ \A k \in 1 .. Len(obs'.ids) : obs'.ids[k] # predator.id
          /\ \A k \in 1 .. Len(fed) :
               (\A j \in 1 .. Len(boids) : boids[j].id # fed[k].id) =>
                 \A j \in 1 .. Len(obs'.ids) : obs'.ids[j] # fed[k].id
    ]_vars

\* the predator has interacted with the prey an eat() left, after eating one
C12_Witness ==
  /\ pc = "idle"
  /\ obs.who = predator.id
  /\ Len(fed) > Len(boids)
  /\ Len(obs.ids) >= 1
  /\ obs.ids = Ids(boids)

\* some predaboid of the perceived population is nearer than 150 to the
\* agent that acted and not more than 135 degrees off the given heading
PredatorInSight(heading) ==
  \E j \in 1 .. Len(obs.ids) :
    /\ obs.ids[j] = predator.id
    /\ obs.ids[j] # obs.who
    /\ Away2(j) < (150 * Unit) * (150 * Unit)
    /\ ~Behind(heading, VSub(obs.xs[j], obs.before.x))

\* C13 as stated: when move() is called, boost is true exactly if a
\* predaboid is nearer than 150 and outside the blind spot of the agent as
\* it then is (the blind spot of the velocity it moves with), and its
\* boostValue is above 1.
C13_BoostIffInSightAtMove ==
  obs.who >= 0 =>
    (obs.at_move.boost <=>
       (PredatorInSight(obs.at_move.dx) /\ obs.before.boostValue > boostFloor))

\* C13 as amended: boost is set once, between the steering forces and the
\* attached forces: it is true exactly if a predaboid is nearer than 150
\* and not more than 135 degrees off the velocity the agent has once
\* separation, align, cohere and flee_predator are added to it, and its
\* boostValue is above 1; the attached forces and the speed limit that
\* follow change the velocity and leave boost as it was set.
C13_BoostIffInSightWhenSet ==
  obs.who >= 0 =>
    /\ obs.at_move.boost <=>
         (PredatorInSight(obs.steered.dx) /\ obs.before.boostValue > boostFloor)
    /\ obs.at_move.boost = (obs.detected /\ obs.steered.boostValue > boostFloor)
    /\ obs.at_move.boostValue = obs.before.boostValue

\* a boid that was not boosting has seen the predaboid and switched its
\* boost on
C13_Witness ==
  /\ obs.who >= 1
  /\ ~obs.before.boost
  /\ obs.at_move.boost
  /\ PredatorInSight(obs.steered.dx)

\* C14 as stated: the rebound changes the coordinate and the velocity
\* component of an axis only if that axis's coordinate is outside
\* [-taille, taille] after move(); an agent inside the arena on both axes
\* is left as move() put it.
C14_OnlyAxesOutsideChange ==
  obs.who >= 0 =>
    \A i \in 1 .. 2 :
      Abs(obs.moved.x[i]) <= taille * Unit =>
        /\ bounced(obs.moved).x[i] = obs.moved.x[i]
        /\ bounced(obs.moved).dx[i] = obs.moved.dx[i]

\* C15: in the loop of run_simulation, iteration() is entered from the
\* update of a frame only, at most once in a frame, and never with
\* game_over set; game_over is set only on seeing the list empty, and once
\* it is set it stays set and the Simulation is left as it is.
C15_NoIterationAfterGameOver ==
  [][/\ (pc = "idle" /\ pc' = "prey") =>
          /\ main_pc = "update"
          /\ ~game_over
          /\ iter = frame_iter
     /\ iter' - frame_iter' <= 1
     /\ (iter' > frame_iter' /\ pc' = "idle") => main_pc' \in {"update", "draw", "while"}
     /\ (game_over' /\ ~game_over) => Len(boids) = 0
     /\ game_over =>
          /\ game_over'
          /\ pc' = "idle"
          /\ iter' = iter
          /\ boids' = boids
          /\ predator' = predator
    ]_vars

\* the flock was eaten, game_over was set, and a later frame has passed
\* its update without calling iteration()
C15_Witness ==
  /\ game_over
  /\ args.n >= 1
  /\ iter >= 1
  /\ main_pc = "draw"
  /\ frame_iter = iter
  /\ running

\* C16: after every interaction() of a prey, boost true implies boostValue
\* above 1: a boosting move() that brings boostValue to 1 or below leaves
\* boostValue 0 and boost false, and any other boosting move() leaves
\* boostValue 0.5 lower, above 1, and boost true.
C16_BoostingImpliesAboveOne ==
  /\ Built => \A k \in 1 .. Len(boids) :
                boids[k].boost => boids[k].boostValue > boostFloor
  /\ (obs.who >= 1 /\ obs.at_move.boost) =>
       IF obs.at_move.boostValue - boostDecay <= boostFloor
       THEN obs.moved.boostValue = 0 /\ ~obs.moved.boost
       ELSE /\ obs.moved.boostValue = obs.at_move.boostValue - boostDecay
            /\ obs.moved.boost

\* a boosting move() has exhausted a prey's boost
C16_Witness ==
  /\ PreyJustActed
  /\ obs.at_move.boost
  /\ obs.at_move.boostValue > boostFloor
  /\ boids[idx - 1].boostValue = 0
  /\ ~boids[idx - 1].boost

\* C17: once a boosting move() has set a prey's boostValue to 0, none of
\* its next 100 interaction() calls moves with boost true, whether or not
\* a predaboid is detected, and each of them raises boostValue by 0.01:
\* after the k-th of them boostValue is k x 0.01 and boost is false.
C17_NoBoostForHundredCalls ==
  (probe # NoAgent /\ probe_log.drained \in 0 .. 100) =>
    /\ ~probe.boost
    /\ probe.boostValue = probe_log.drained * boostRegen
    /\ probe_log.drained >= 1 => ~probe_log.boosted

\* the 100th call after the boost ran out, a predaboid detected on the way
\* and in that call
C17_Witness ==
  /\ probe # NoAgent
  /\ ~probe_log.calling
  /\ probe_log.drained = 100
  /\ probe_log.chased
  /\ probe_log.detected

\* C18: a call that detects no predaboid never lowers boostValue; and if
\* the calls keep returning and from some call on none detects a
\* predaboid, boostValue reaches maxBoostValue and stays there.
C18_CalmRegeneratesToMax ==
  /\ [][(probe_log.calling /\ ~probe_log'.calling /\ ~probe_log'.detected) =>
          probe'.boostValue >= probe.boostValue]_vars
  /\ ([]<>(~probe_log.calling) /\ <>[](~probe_log.detected)) =>
       <>[](probe # NoAgent /\ probe.boostValue = maxBoostValue)

\* the boost ran out, no predaboid was detected since, and boostValue is
\* back at maxBoostValue
C18_Witness ==
  /\ probe # NoAgent
  /\ ~probe_log.calling
  /\ probe_log.drained >= maxBoostValue
  /\ ~probe_log.chased
  /\ ~probe_log.detected
  /\ probe.boostValue = maxBoostValue

\* C19: a prey's interaction() changes that prey alone (its position,
\* velocity, boost, boostValue and caches; not its id nor its attached
\* forces): every other prey and the predator are left as they were, and
\* the list keeps its members and their order.  eat() changes the list and
\* the predator's distance cache only: the prey it keeps are as they were,
\* and the predator's position, velocity and boost are as they were.
C19_OnlyActingPreyChanges ==
  [][/\ (pc = "prey" /\ pc' = "prey") =>
          /\ Len(boids') = Len(boids)
          /\ \A j \in 1 .. Len(boids) : j # idx => boids'[j] = boids[j]
          /\ boids'[idx].id = boids[idx].id
          /\ boids'[idx].interactions = boids[idx].interactions
          /\ predator' = predator
     /\ (pc = "prey" /\ pc' = "pred") =>
          /\ \A k \in 1 .. Len(boids') : \E j \in 1 .. Len(boids) : boids'[k] = boids[j]
          /\ predator'.x = predator.x
          /\ predator'.dx = predator.dx
          /\ predator'.boost = predator.boost
          /\ predator'.boostValue = predator.boostValue
    ]_vars

\* a prey has moved among other prey, and the eat() after it has removed
\* one and kept others
C19_Witness ==
  /\ pc = "pred"
  /\ Len(fed) > Len(boids)
  /\ Len(boids) >= 2
  /\ obs.who >= 1
  /\ obs.moved.x # obs.before.x

====
